---- MODULE Spec2Model ----
(***************************************************************************)
(* Stock reconciliation of the Print Bazar manager: the product ledger,   *)
(* the two-depot store stock ledger (Deepak = depot A, Dimple = depot B), *)
(* the order store with its lifecycle handlers, the logistics carry plan  *)
(* and the depot-aware completion / reversion routines of the v2 storage  *)
(* API.                                                                    *)
(***************************************************************************)
EXTENDS Integers, Sequences, FiniteSets, TLC

\* ---------------------------------------------------------------- bounds
MaxOrders == 1
MaxItemQty == 2
MaxStock == 1
MaxCarry == 1
MaxQuantity == 3

\* ------------------------------------------------------------- constants
\* SEED_PRODUCTS: '105' Civil and '110' OOPM both start with quantity 2.
SeedQuantity == 2

ProductIds == {"p1", "p2"}
OrderIds == 1..MaxOrders

PENDING == "PENDING"
DELIVERED == "DELIVERED"
COMPLETED == "COMPLETED"
OrderStatus == {PENDING, DELIVERED, COMPLETED}

Item(p, q, c) == [productId |-> p, quantity |-> q, isCustom |-> c]

\* The item lists a checkout hands over here: one catalog line, two lines
\* of the same product, lines of two products, a custom line that carries
\* a catalog id, and a catalog line next to a custom line.
Carts ==
    {<<Item("p1", MaxItemQty, FALSE)>>,
     <<Item("p1", 1, FALSE), Item("p1", 1, FALSE)>>,
     <<Item("p1", 1, FALSE), Item("p2", 1, FALSE)>>,
     <<Item("p1", MaxItemQty, TRUE)>>,
     <<Item("p2", 1, FALSE), Item("p1", MaxItemQty, TRUE)>>}

\* What parseInt(value) || 0 yields for the depot values typed here.
DepotInputs == 0..MaxStock

\* The rows of the store house table that are saved here.
DepotEdits == ({"p1"} \X DepotInputs \X DepotInputs) \cup {<<"p2", 1, 1>>}

VARIABLES
    products,       \* localStorage PRODUCTS: id -> [quantity]
    orders,         \* localStorage ORDERS / App state: id -> [id, items, status]
    storeStocks,    \* localStorage STORE_STOCK: productId -> [deepakStock, dimpleStock]
    logisticsPlan,  \* localStorage LOGISTICS_PLAN: productId -> [carryDeepak, carryDimple]
    manualNeeds,    \* localStorage MANUAL_NEEDS: sequence of [id, productId, totalRequired, note]
    unpaidWritings, \* localStorage UNPAID_WRITINGS: sequence of [id, amount, relatedOrderId, status]
    orderCategoryMap, \* localStorage ORDER_CATEGORY_MAP: sequence of [orderId, categoryId]
    last            \* the operation that produced this state

vars == <<products, orders, storeStocks, logisticsPlan, manualNeeds, unpaidWritings,
          orderCategoryMap, last>>

\* The ledgers of the notebook pages (manual needs, unpaid writings, order
\* categories), which no stock or order handler reads or writes.
books == <<manualNeeds, unpaidWritings, orderCategoryMap>>

\* getManualNeeds / getUnpaidWritings / getOrderCategoryMap on a storage
\* that holds none of the three keys.
NoBooks ==
    /\ manualNeeds = <<>>
    /\ unpaidWritings = <<>>
    /\ orderCategoryMap = <<>>

MathMin(a, b) == IF a < b THEN a ELSE b
MathMax(a, b) == IF a > b THEN a ELSE b

\* A function with one more (or one replaced) entry.
Put(f, k, v) == [x \in DOMAIN f \cup {k} |-> IF x = k THEN v ELSE f[x]]

\* A function without the entry of k.
Drop(f, k) == [x \in DOMAIN f \ {k} |-> f[x]]

EmptyMap == [x \in {} |-> 0]

NoLedger == [products |-> EmptyMap, stocks |-> EmptyMap, plan |-> EmptyMap]

Did(op) == [op |-> op, items |-> <<>>, pre |-> NoLedger]

\* ------------------------------------------------------- product ledger

\* updateProductStock as it would be with the quantity clamped at zero.
updateProductStock_Clamped(prods, productId, quantityChange) ==
    [p \in DOMAIN prods |->
        IF p = productId
        THEN [prods[p] EXCEPT !.quantity = MathMax(0, @ + quantityChange)]
        ELSE prods[p]]

\* updateProductStock as it would be if it took a product it does not find
\* for one with no stock and stored it.
updateProductStock_CreatesMissing(prods, productId, quantityChange) ==
    IF productId \in DOMAIN prods
    THEN [prods EXCEPT ![productId].quantity = @ + quantityChange]
    ELSE Put(prods, productId, [quantity |-> quantityChange])

\* export const updateProductStock
updateProductStock(prods, productId, quantityChange) ==
    [p \in DOMAIN prods |->
        IF p = productId
        THEN [prods[p] EXCEPT !.quantity = @ + quantityChange]
        ELSE prods[p]]

\* The item loop as it would be without its isCustom guard.
RECURSIVE forEachUpdateProductStock_NoCustomGuard(_, _, _)
forEachUpdateProductStock_NoCustomGuard(prods, items, sign) ==
    IF items = <<>>
    THEN prods
    ELSE forEachUpdateProductStock_NoCustomGuard(
            [p \in DOMAIN prods |->
                IF p = Head(items).productId
                THEN [prods[p] EXCEPT !.quantity = @ + sign * Head(items).quantity]
                ELSE prods[p]],
            Tail(items), sign)

\* The forEach as it would be if every line were applied to the quantities
\* read before the loop, so that a later line of a product overwrote the
\* change of an earlier one.
RECURSIVE forEachUpdateProductStock_StaleRead(_, _, _)
forEachUpdateProductStock_StaleRead(prods, items, sign) ==
    IF items = <<>>
    THEN prods
    ELSE LET item == items[Len(items)]
             before == forEachUpdateProductStock_StaleRead(prods, SubSeq(items, 1, Len(items) - 1), sign)
         IN IF ~item.isCustom /\ item.productId \in DOMAIN prods
            THEN [before EXCEPT ![item.productId].quantity =
                     prods[item.productId].quantity + sign * item.quantity]
            ELSE before

\* items.forEach(item => { if (!item.isCustom) updateProductStock(item.productId, sign * item.quantity) })
RECURSIVE forEachUpdateProductStock(_, _, _)
forEachUpdateProductStock(prods, items, sign) ==
    IF items = <<>>
    THEN prods
    ELSE LET item == Head(items) IN
         forEachUpdateProductStock(
            IF ~item.isCustom
            THEN updateProductStock(prods, item.productId, sign * item.quantity)
            ELSE prods,
            Tail(items), sign)

\* ---------------------------------------------------------- order store

\* crypto.randomUUID(): an id no stored order carries.
FreshOrderId == CHOOSE n \in OrderIds \ DOMAIN orders : \A m \in OrderIds \ DOMAIN orders : n <= m

\* POSCounter.handleSave for a new order, then App.handleSaveOrder(order, false).
HandleSaveOrderNew(cart) ==
    /\ OrderIds \ DOMAIN orders # {}
    /\ LET order == [id |-> FreshOrderId, items |-> cart, status |-> PENDING]
       IN orders' = Put(orders, order.id, order)
    /\ last' = Did("create")
    /\ UNCHANGED <<products, storeStocks, logisticsPlan>>

\* The edit as it would be if the old items were not reverted first.
HandleSaveOrderEdit_NoRevert(orderId, cart) ==
    /\ orderId \in DOMAIN orders
    /\ products' =
          IF orders[orderId].status = COMPLETED
          THEN forEachUpdateProductStock(products, cart, -1)
          ELSE products
    /\ orders' = [orders EXCEPT ![orderId] = [@ EXCEPT !.items = cart]]
    /\ last' = Did("edit")
    /\ UNCHANGED <<storeStocks, logisticsPlan>>

\* POSCounter.handleSave with an initialOrder, then App.handleSaveOrder(order, true).
HandleSaveOrderEdit(orderId, cart) ==
    /\ orderId \in DOMAIN orders
    /\ LET oldOrder == orders[orderId]
           order == [id |-> oldOrder.id, items |-> cart, status |-> oldOrder.status]
           reverted == forEachUpdateProductStock(products, oldOrder.items, 1)
       IN /\ products' =
                IF oldOrder.status = COMPLETED
                THEN IF order.status = COMPLETED
                     THEN forEachUpdateProductStock(reverted, order.items, -1)
                     ELSE reverted
                ELSE products
          /\ orders' = [orders EXCEPT ![orderId] = order]
    /\ last' = Did("edit")
    /\ UNCHANGED <<storeStocks, logisticsPlan>>

\* The status change as it would be if every change to COMPLETED deducted,
\* whatever the status before.
HandleUpdateStatus_DeductsAgain(orderId, status) ==
    /\ orderId \in DOMAIN orders
    /\ LET order == orders[orderId]
           oldStatus == order.status
       IN /\ products' =
                IF status = COMPLETED
                THEN forEachUpdateProductStock(products, order.items, -1)
                ELSE IF oldStatus = COMPLETED
                     THEN forEachUpdateProductStock(products, order.items, 1)
                     ELSE products
          /\ orders' = [orders EXCEPT ![orderId] = [order EXCEPT !.status = status]]
    /\ last' = Did("status")
    /\ UNCHANGED <<storeStocks, logisticsPlan>>

\* The status change as it would be if a completion emptied the carry plan.
HandleUpdateStatus_ClearsPlan(orderId, status) ==
    /\ orderId \in DOMAIN orders
    /\ LET order == orders[orderId]
           oldStatus == order.status
       IN /\ products' =
                IF status = COMPLETED /\ oldStatus # COMPLETED
                THEN forEachUpdateProductStock(products, order.items, -1)
                ELSE IF oldStatus = COMPLETED /\ status # COMPLETED
                     THEN forEachUpdateProductStock(products, order.items, 1)
                     ELSE products
          /\ orders' = [orders EXCEPT ![orderId] = [order EXCEPT !.status = status]]
          /\ logisticsPlan' =
                IF status = COMPLETED /\ oldStatus # COMPLETED THEN EmptyMap ELSE logisticsPlan
    /\ last' = Did("status")
    /\ UNCHANGED storeStocks

\* App.handleUpdateStatus
HandleUpdateStatus(orderId, status) ==
    /\ orderId \in DOMAIN orders
    /\ LET order == orders[orderId]
           oldStatus == order.status
       IN /\ products' =
                IF status = COMPLETED /\ oldStatus # COMPLETED
                THEN forEachUpdateProductStock(products, order.items, -1)
                ELSE IF oldStatus = COMPLETED /\ status # COMPLETED
                     THEN forEachUpdateProductStock(products, order.items, 1)
                     ELSE products
          /\ orders' = [orders EXCEPT ![orderId] = [order EXCEPT !.status = status]]
    /\ last' = Did("status")
    /\ UNCHANGED <<storeStocks, logisticsPlan>>

\* App.handleDeleteOrder, the confirm() dialog accepted.
HandleDeleteOrder(id) ==
    /\ id \in DOMAIN orders
    /\ products' =
          IF orders[id].status = COMPLETED
          THEN forEachUpdateProductStock(products, orders[id].items, 1)
          ELSE products
    /\ orders' = Drop(orders, id)
    /\ last' = Did("delete")
    /\ UNCHANGED <<storeStocks, logisticsPlan>>

\* ------------------------------------------------------ depot stock ledger

\* updateStoreStock as it would be without the sync of the product total.
updateStoreStock_NoSync(productId, deepakStock, dimpleStock) ==
    /\ storeStocks' = Put(storeStocks, productId,
                          [deepakStock |-> deepakStock, dimpleStock |-> dimpleStock])
    /\ products' = products

\* v2.updateStoreStock (the setDepotSplit of the data API)
updateStoreStock(productId, deepakStock, dimpleStock) ==
    /\ storeStocks' = Put(storeStocks, productId,
                          [deepakStock |-> deepakStock, dimpleStock |-> dimpleStock])
    /\ products' =
          IF productId \in DOMAIN products
          THEN [products EXCEPT ![productId].quantity = deepakStock + dimpleStock]
          ELSE products

\* StoreHouseStock.handleSave: a row of the catalog saved with the edited pair.
StoreHouseStockSave(productId, deepak, dimple) ==
    /\ productId \in DOMAIN products
    /\ updateStoreStock(productId, deepak, dimple)
    /\ last' = Did("depot")
    /\ UNCHANGED <<orders, logisticsPlan>>

\* ------------------------------------- logistics stock processing (v2)

\* The three ledgers a v2 routine reads at its start and persists at its end.
Ledger == [products |-> products, stocks |-> storeStocks, plan |-> logisticsPlan]

\* itemPlan.carryDeepak || 0, itemPlan.carryDimple || 0
PlannedDeepak(L, item) ==
    IF item.productId \in DOMAIN L.plan THEN L.plan[item.productId].carryDeepak ELSE 0

PlannedDimple(L, item) ==
    IF item.productId \in DOMAIN L.plan THEN L.plan[item.productId].carryDimple ELSE 0

\* The entry as it would be if a missing record were created empty.
StoreEntryOrNew_Empty(L, productId) ==
    IF productId \in DOMAIN L.stocks
    THEN L.stocks[productId]
    ELSE [deepakStock |-> 0, dimpleStock |-> 0]

\* stocks.find(...) or the entry created when it is missing.
StoreEntryOrNew(L, productId) ==
    IF productId \in DOMAIN L.stocks
    THEN L.stocks[productId]
    ELSE [deepakStock |-> IF productId \in DOMAIN L.products
                          THEN L.products[productId].quantity
                          ELSE 0,
          dimpleStock |-> 0]

\* The body of order.items.forEach in v2.processOrderCompletionStock.
CompletionItem(L, item) ==
    IF item.isCustom
    THEN L
    ELSE LET pid == item.productId
             hasPlan == pid \in DOMAIN L.plan
             plannedDeepak == PlannedDeepak(L, item)
             takeDeepak == IF hasPlan THEN MathMin(item.quantity, plannedDeepak) ELSE 0
             afterDeepak == item.quantity - takeDeepak
             plannedDimple == PlannedDimple(L, item)
             takeDimple == IF hasPlan THEN MathMin(afterDeepak, plannedDimple) ELSE 0
             qtyToDeduct == afterDeepak - takeDimple
             deductDeepak == takeDeepak + (IF qtyToDeduct > 0 THEN qtyToDeduct ELSE 0)
             deductDimple == takeDimple
             storeEntry == StoreEntryOrNew(L, pid)
         IN [plan |->
                IF hasPlan
                THEN [L.plan EXCEPT ![pid] =
                        [carryDeepak |-> MathMax(0, plannedDeepak - takeDeepak),
                         carryDimple |-> MathMax(0, plannedDimple - takeDimple)]]
                ELSE L.plan,
             stocks |->
                Put(L.stocks, pid,
                    [deepakStock |-> MathMax(0, storeEntry.deepakStock - deductDeepak),
                     dimpleStock |-> MathMax(0, storeEntry.dimpleStock - deductDimple)]),
             products |->
                IF pid \in DOMAIN L.products
                THEN [L.products EXCEPT ![pid].quantity = MathMax(0, @ - item.quantity)]
                ELSE L.products]

\* The reversion of one item as it would be without the product total restored.
ReversionItem_NoQuantity(L, item) ==
    IF item.isCustom
    THEN L
    ELSE [plan |-> L.plan,
          stocks |->
             Put(L.stocks, item.productId,
                 [StoreEntryOrNew(L, item.productId) EXCEPT !.deepakStock = @ + item.quantity]),
          products |-> L.products]

\* The body of order.items.forEach in v2.processOrderReversionStock.
ReversionItem(L, item) ==
    IF item.isCustom
    THEN L
    ELSE LET pid == item.productId
             storeEntry == StoreEntryOrNew(L, pid)
         IN [plan |-> L.plan,
             stocks |->
                Put(L.stocks, pid,
                    [storeEntry EXCEPT !.deepakStock = @ + item.quantity]),
             products |->
                IF pid \in DOMAIN L.products
                THEN [L.products EXCEPT ![pid].quantity = @ + item.quantity]
                ELSE L.products]

RECURSIVE CompletionItems(_, _)
CompletionItems(L, items) ==
    IF items = <<>> THEN L ELSE CompletionItems(CompletionItem(L, Head(items)), Tail(items))

RECURSIVE ReversionItems(_, _)
ReversionItems(L, items) ==
    IF items = <<>> THEN L ELSE ReversionItems(ReversionItem(L, Head(items)), Tail(items))

\* v2.processOrderCompletionStock(order)
processOrderCompletionStock(order) ==
    LET done == CompletionItems(Ledger, order.items)
    IN /\ storeStocks' = done.stocks
       /\ logisticsPlan' = done.plan
       /\ products' = done.products

\* The reversion as it would be if it dropped the plan entries of the
\* products it gives back.
processOrderReversionStock_DropsPlan(order) ==
    LET done == ReversionItems(Ledger, order.items)
        given == {order.items[k].productId : k \in {j \in DOMAIN order.items : ~order.items[j].isCustom}}
    IN /\ storeStocks' = done.stocks
       /\ products' = done.products
       /\ logisticsPlan' = [p \in DOMAIN logisticsPlan \ given |-> logisticsPlan[p]]

\* v2.processOrderReversionStock(order)
processOrderReversionStock(order) ==
    LET done == ReversionItems(Ledger, order.items)
    IN /\ storeStocks' = done.stocks
       /\ products' = done.products
       /\ UNCHANGED logisticsPlan

\* No ledger value beyond the cap of the model.
WithinCap(L) ==
    /\ \A p \in DOMAIN L.products : L.products[p].quantity <= MaxQuantity
    /\ \A p \in DOMAIN L.stocks : L.stocks[p].deepakStock <= MaxQuantity

\* A caller hands an order to v2.processOrderCompletionStock.
CallCompletion(cart) ==
    /\ processOrderCompletionStock([items |-> cart])
    /\ last' = [op |-> "complete", items |-> cart, pre |-> Ledger]
    /\ UNCHANGED orders

\* A caller hands an order to v2.processOrderReversionStock; when the call
\* before it was the completion of the same order, the ledgers from before
\* that completion stay on record.
CallReversion(cart) ==
    /\ WithinCap(ReversionItems(Ledger, cart))
    /\ processOrderReversionStock([items |-> cart])
    /\ last' = IF last.op = "complete" /\ last.items = cart
               THEN [op |-> "roundtrip", items |-> cart, pre |-> last.pre]
               ELSE [op |-> "revert", items |-> cart, pre |-> NoLedger]
    /\ UNCHANGED orders

\* ------------------------------------------------------------ the program

Init ==
    /\ products = [p \in ProductIds |-> [quantity |-> SeedQuantity]]
    /\ orders = EmptyMap
    /\ storeStocks = EmptyMap
    /\ logisticsPlan = EmptyMap
    /\ NoBooks
    /\ last = Did("init")

Next ==
    \/ /\ \E cart \in Carts : HandleSaveOrderNew(cart)
       /\ UNCHANGED books
    \/ /\ \E id \in OrderIds, cart \in Carts : HandleSaveOrderEdit(id, cart)
       /\ UNCHANGED books
    \/ /\ \E id \in OrderIds, status \in OrderStatus : HandleUpdateStatus(id, status)
       /\ UNCHANGED books
    \/ /\ \E id \in OrderIds : HandleDeleteOrder(id)
       /\ UNCHANGED books
    \/ /\ \E e \in DepotEdits : StoreHouseStockSave(e[1], e[2], e[3])
       /\ UNCHANGED books

Spec == Init /\ [][Next]_vars

\* The v2 stock routines called on every ledger an operator can have
\* produced: a quantity, a depot record and a plan entry for p1.
LedgerInputs == (0..MaxStock) \cup {-1}
PlanInputs == (0..MaxCarry) \cup {-1}

InitV2 ==
    /\ products \in {[p \in ProductIds |-> [quantity |-> IF p = "p1" THEN q ELSE SeedQuantity]] :
                        q \in 0..SeedQuantity}
    /\ orders = EmptyMap
    /\ storeStocks \in {EmptyMap} \cup
            {[p \in {"p1"} |-> [deepakStock |-> a, dimpleStock |-> b]] :
                a \in LedgerInputs \cup {SeedQuantity}, b \in LedgerInputs}
    /\ logisticsPlan \in {EmptyMap} \cup
            {[p \in {"p1"} |-> [carryDeepak |-> x, carryDimple |-> y]] :
                x \in PlanInputs, y \in PlanInputs}
    /\ NoBooks
    /\ last = Did("init")

NextV2 ==
    \/ /\ \E cart \in Carts : CallCompletion(cart)
       /\ UNCHANGED books
    \/ /\ \E cart \in Carts : CallReversion(cart)
       /\ UNCHANGED books

SpecV2 == InitV2 /\ [][NextV2]_vars

\* ================================================================ claims

\* The total quantity the non-custom lines of an item list ask of product p.
RECURSIVE NonCustomQty(_, _)
NonCustomQty(items, p) ==
    IF items = <<>>
    THEN 0
    ELSE (IF Head(items).productId = p /\ ~Head(items).isCustom THEN Head(items).quantity ELSE 0)
         + NonCustomQty(Tail(items), p)

AllNonCustom(items) == \A k \in DOMAIN items : ~items[k].isCustom

\* C1: stock non-negativity. Every product has quantity >= 0 and every depot
\* record has deepakStock >= 0 and dimpleStock >= 0, whatever completions
\* and reversions went before.
C1_StockNonNegative ==
    /\ \A p \in DOMAIN products : products[p].quantity >= 0
    /\ \A p \in DOMAIN storeStocks :
          storeStocks[p].deepakStock >= 0 /\ storeStocks[p].dimpleStock >= 0

\* C2: depot sum bound. Every product with a depot record has
\* deepakStock + dimpleStock <= quantity.
C2_DepotSumBound ==
    \A p \in DOMAIN storeStocks \cap DOMAIN products :
        storeStocks[p].deepakStock + storeStocks[p].dimpleStock <= products[p].quantity

\* C3: setDepotSplit(productId, a, b) on a catalog product stores the depot
\* record (a, b), overwrites the product's quantity with a + b, so that the
\* record sums to the quantity, and changes no other product and no other
\* depot record.
C3_SetDepotSplit ==
    [][\A e \in DepotEdits :
          StoreHouseStockSave(e[1], e[2], e[3]) =>
             /\ DOMAIN storeStocks' = DOMAIN storeStocks \cup {e[1]}
             /\ storeStocks'[e[1]] = [deepakStock |-> e[2], dimpleStock |-> e[3]]
             /\ DOMAIN products' = DOMAIN products
             /\ products'[e[1]].quantity = e[2] + e[3]
             /\ storeStocks'[e[1]].deepakStock + storeStocks'[e[1]].dimpleStock
                   = products'[e[1]].quantity
             /\ \A q \in DOMAIN products \ {e[1]} : products'[q] = products[q]
             /\ \A q \in DOMAIN storeStocks \ {e[1]} : storeStocks'[q] = storeStocks[q]
      ]_vars

\* A depot split of p1 was saved over a different quantity while p2 holds a
\* record of its own.
C3_Witness ==
    /\ last.op = "depot"
    /\ DOMAIN storeStocks = {"p1", "p2"}
    /\ storeStocks["p1"] = [deepakStock |-> 1, dimpleStock |-> 0]
    /\ products["p1"].quantity = 1
    /\ storeStocks["p2"] = [deepakStock |-> 1, dimpleStock |-> 1]

\* C4 as stated: after an order of non-custom items is completed and then
\* immediately reverted, every product's quantity and every depot record
\* that existed before the completion are back at their earlier values.
C4_RoundTripRestores ==
    (last.op = "roundtrip" /\ AllNonCustom(last.items)) =>
        /\ products = last.pre.products
        /\ \A p \in DOMAIN last.pre.stocks : storeStocks[p] = last.pre.stocks[p]

\* The plan of p, before the completion, carries nothing from depot B.
NoCarryFromDimple(pre, p) ==
    p \notin DOMAIN pre.plan \/ pre.plan[p].carryDimple = 0

\* C4 as amended: the round trip restores a product's quantity when the
\* order asks no more of it than is held, and restores its depot record when
\* depot A holds at least what the order asks, depot B is not negative and
\* the plan carries nothing from depot B.
C4_RoundTripAmended ==
    (last.op = "roundtrip" /\ AllNonCustom(last.items)) =>
        /\ DOMAIN products = DOMAIN last.pre.products
        /\ \A p \in DOMAIN products :
              NonCustomQty(last.items, p) <= last.pre.products[p].quantity
                 => products[p] = last.pre.products[p]
        /\ \A p \in DOMAIN last.pre.stocks :
              ( /\ NoCarryFromDimple(last.pre, p)
                /\ NonCustomQty(last.items, p) <= last.pre.stocks[p].deepakStock
                /\ last.pre.stocks[p].dimpleStock >= 0 )
                 => storeStocks[p] = last.pre.stocks[p]

\* An order of two units of p1 went the round trip over a ledger with stock
\* in both depots and a plan for depot A only, and all of it is back.
C4_Witness ==
    /\ last.op = "roundtrip"
    /\ last.items = <<Item("p1", MaxItemQty, FALSE)>>
    /\ "p1" \in DOMAIN last.pre.stocks
    /\ last.pre.stocks["p1"].dimpleStock > 0
    /\ "p1" \in DOMAIN last.pre.plan
    /\ last.pre.plan["p1"].carryDeepak > 0
    /\ storeStocks = last.pre.stocks
    /\ products = last.pre.products

\* C5: a status change into COMPLETED from PENDING or DELIVERED takes, for
\* every product, the total of the order's non-custom lines off its
\* quantity; a status change between PENDING and DELIVERED leaves every
\* quantity as it was.
C5_CompletionDeducts ==
    [][\A id \in OrderIds, status \in OrderStatus :
          HandleUpdateStatus(id, status) =>
             /\ (status = COMPLETED /\ orders[id].status \in {PENDING, DELIVERED}) =>
                   /\ DOMAIN products' = DOMAIN products
                   /\ \A p \in DOMAIN products :
                         products'[p].quantity =
                            products[p].quantity - NonCustomQty(orders[id].items, p)
             /\ (status # COMPLETED /\ orders[id].status # COMPLETED) =>
                   products' = products
      ]_vars

\* An order of one p1 and one p2 has just been completed on the seed stock.
C5_Witness ==
    /\ last.op = "status"
    /\ storeStocks = EmptyMap
    /\ \E id \in DOMAIN orders :
          /\ orders[id].status = COMPLETED
          /\ orders[id].items = <<Item("p1", 1, FALSE), Item("p2", 1, FALSE)>>
    /\ products["p1"].quantity = SeedQuantity - 1
    /\ products["p2"].quantity = SeedQuantity - 1

\* C6: on the completion of an order the depot records and the plan become
\* what the carry rule gives: up to carryDeepak from depot A, then up to
\* carryDimple from depot B, the plan decremented by what was taken, the
\* rest from depot A.
C6_CompletionDeductsDepots ==
    [][\A id \in OrderIds :
          (HandleUpdateStatus(id, COMPLETED) /\ orders[id].status # COMPLETED) =>
             /\ \A p \in DOMAIN storeStocks :
                   storeStocks'[p] = CompletionItems(Ledger, orders[id].items).stocks[p]
             /\ logisticsPlan' = CompletionItems(Ledger, orders[id].items).plan
      ]_vars

\* C7: a status change out of COMPLETED gives, for every non-custom line,
\* the quantity back to the product and to depot A, and leaves depot B.
C7_ReversionRestoresDeepak ==
    [][\A id \in OrderIds, status \in {PENDING, DELIVERED} :
          (HandleUpdateStatus(id, status) /\ orders[id].status = COMPLETED) =>
             /\ \A p \in DOMAIN products :
                   products'[p].quantity =
                      products[p].quantity + NonCustomQty(orders[id].items, p)
             /\ \A p \in DOMAIN storeStocks :
                   /\ storeStocks'[p].deepakStock =
                         storeStocks[p].deepakStock + NonCustomQty(orders[id].items, p)
                   /\ storeStocks'[p].dimpleStock = storeStocks[p].dimpleStock
      ]_vars

\* C8: deleting a COMPLETED order gives the quantities back to the products
\* and to depot A and removes the order; deleting a PENDING or DELIVERED
\* order removes it and changes no ledger.
C8_DeleteReverts ==
    [][\A id \in OrderIds :
          HandleDeleteOrder(id) =>
             /\ id \notin DOMAIN orders'
             /\ IF orders[id].status = COMPLETED
                THEN /\ \A p \in DOMAIN products :
                           products'[p].quantity =
                              products[p].quantity + NonCustomQty(orders[id].items, p)
                     /\ \A p \in DOMAIN storeStocks :
                           /\ storeStocks'[p].deepakStock =
                                 storeStocks[p].deepakStock + NonCustomQty(orders[id].items, p)
                           /\ storeStocks'[p].dimpleStock = storeStocks[p].dimpleStock
                ELSE /\ products' = products
                     /\ storeStocks' = storeStocks
                     /\ logisticsPlan' = logisticsPlan
      ]_vars

\* C9: the edit of an order that is and stays COMPLETED changes every
\* product's quantity by what the old item list asked of it minus what the
\* new one asks; the edit of any other order changes no stock.
C9_EditCompleted ==
    [][\A id \in OrderIds, cart \in Carts :
          HandleSaveOrderEdit(id, cart) =>
             /\ orders'[id].status = orders[id].status
             /\ orders'[id].items = cart
             /\ IF orders[id].status = COMPLETED
                THEN /\ DOMAIN products' = DOMAIN products
                     /\ \A p \in DOMAIN products :
                           products'[p].quantity =
                              products[p].quantity
                                 + NonCustomQty(orders[id].items, p)
                                 - NonCustomQty(cart, p)
                ELSE products' = products
             /\ storeStocks' = storeStocks
      ]_vars

\* A COMPLETED order has just been edited to one p1 and one p2, and the
\* seed stock is down by exactly that.
C9_Witness ==
    /\ last.op = "edit"
    /\ storeStocks = EmptyMap
    /\ \E id \in DOMAIN orders :
          /\ orders[id].status = COMPLETED
          /\ orders[id].items = <<Item("p1", 1, FALSE), Item("p2", 1, FALSE)>>
    /\ products["p1"].quantity = SeedQuantity - 1
    /\ products["p2"].quantity = SeedQuantity - 1

\* Product p appears in the item list in custom lines at most.
OnlyCustomLines(items, p) == NonCustomQty(items, p) = 0

\* C10: custom items change no ledger. A status change, an edit or a
\* deletion of an order leaves the quantity of every product that the
\* order (before and after the edit) names in custom lines only as it was,
\* and leaves every depot record and every plan entry as it was.
C10_CustomItemsInert ==
    [][\A id \in OrderIds :
          /\ \A status \in OrderStatus :
                HandleUpdateStatus(id, status) =>
                   /\ \A p \in DOMAIN products :
                         OnlyCustomLines(orders[id].items, p) => products'[p] = products[p]
                   /\ storeStocks' = storeStocks /\ logisticsPlan' = logisticsPlan
          /\ \A cart \in Carts :
                HandleSaveOrderEdit(id, cart) =>
                   /\ \A p \in DOMAIN products :
                         (OnlyCustomLines(orders[id].items, p) /\ OnlyCustomLines(cart, p))
                            => products'[p] = products[p]
                   /\ storeStocks' = storeStocks /\ logisticsPlan' = logisticsPlan
          /\ HandleDeleteOrder(id) =>
                /\ \A p \in DOMAIN products :
                      OnlyCustomLines(orders[id].items, p) => products'[p] = products[p]
                /\ storeStocks' = storeStocks /\ logisticsPlan' = logisticsPlan
      ]_vars

\* An order with a catalog line of p2 and a custom line that names p1 has
\* just been completed: p1 keeps the seed quantity, p2 is down by one.
C10_Witness ==
    /\ last.op = "status"
    /\ storeStocks = EmptyMap
    /\ \E id \in DOMAIN orders :
          /\ orders[id].status = COMPLETED
          /\ orders[id].items = <<Item("p2", 1, FALSE), Item("p1", MaxItemQty, TRUE)>>
    /\ products["p1"].quantity = SeedQuantity
    /\ products["p2"].quantity = SeedQuantity - 1

\* ------------------------------------------- requirement view (Needs tab)

\* orders.filter(o => o.status === OrderStatus.PENDING)
activeOrders(ords) == {id \in DOMAIN ords : ords[id].status = PENDING}

\* The inner forEach as it would be without the isCustom test.
RECURSIVE itemsDemand_WithCustom(_, _)
itemsDemand_WithCustom(demand, items) ==
    IF items = <<>>
    THEN demand
    ELSE LET item == Head(items)
             totalQty == IF item.productId \in DOMAIN demand THEN demand[item.productId] ELSE 0
         IN itemsDemand_WithCustom(Put(demand, item.productId, totalQty + item.quantity),
                                   Tail(items))

\* order.items.forEach: productDemand[item.productId].totalQty += item.quantity
\* for the items that are not custom.
RECURSIVE itemsDemand(_, _)
itemsDemand(demand, items) ==
    IF items = <<>>
    THEN demand
    ELSE LET item == Head(items)
             totalQty == IF item.productId \in DOMAIN demand THEN demand[item.productId] ELSE 0
         IN itemsDemand(IF ~item.isCustom
                        THEN Put(demand, item.productId, totalQty + item.quantity)
                        ELSE demand,
                        Tail(items))

\* activeOrders.forEach over the orders of the given ids, in stored order.
RECURSIVE ordersDemand(_, _, _)
ordersDemand(demand, ords, ids) ==
    IF ids = {}
    THEN demand
    ELSE LET id == CHOOSE n \in ids : \A m \in ids : n <= m
         IN ordersDemand(itemsDemand(demand, ords[id].items), ords, ids \ {id})

productDemand(ords) == ordersDemand(EmptyMap, ords, activeOrders(ords))

\* The row as it would be with the shortage not clamped at 0.
requirementRow_NoClamp(prods, demand, stocks, p) ==
    LET orderedQty == IF p \in DOMAIN demand THEN demand[p] ELSE 0
        currentStock == prods[p].quantity
        recorded == IF p \in DOMAIN stocks THEN stocks[p].dimpleStock ELSE 0
        dimpleStock == IF recorded > currentStock THEN currentStock ELSE recorded
    IN [id |-> p, currentStock |-> currentStock,
        deepakStock |-> currentStock - dimpleStock, dimpleStock |-> dimpleStock,
        orderedQty |-> orderedQty, needed |-> orderedQty - currentStock]

\* The row as it would be if it showed the depot record as stored.
requirementRow_StoredDepots(prods, demand, stocks, p) ==
    LET orderedQty == IF p \in DOMAIN demand THEN demand[p] ELSE 0
        currentStock == prods[p].quantity
    IN [id |-> p, currentStock |-> currentStock,
        deepakStock |-> IF p \in DOMAIN stocks THEN stocks[p].deepakStock ELSE currentStock,
        dimpleStock |-> IF p \in DOMAIN stocks THEN stocks[p].dimpleStock ELSE 0,
        orderedQty |-> orderedQty, needed |-> MathMax(0, orderedQty - currentStock)]

\* products.map(p => ...): one row of the requirement report.
requirementRow(prods, demand, stocks, p) ==
    LET orderedQty == IF p \in DOMAIN demand THEN demand[p] ELSE 0
        currentStock == prods[p].quantity
        needed == MathMax(0, orderedQty - currentStock)
        recorded == IF p \in DOMAIN stocks THEN stocks[p].dimpleStock ELSE 0
        dimpleStock == IF recorded > currentStock THEN currentStock ELSE recorded
        deepakStock == currentStock - dimpleStock
    IN [id |-> p, currentStock |-> currentStock,
        deepakStock |-> deepakStock, dimpleStock |-> dimpleStock,
        orderedQty |-> orderedQty, needed |-> needed]

\* The requirements memo: the rows with orderedQty > 0, keyed by product.
requirements(prods, ords, stocks) ==
    LET demand == productDemand(ords)
    IN [p \in {q \in DOMAIN prods : requirementRow(prods, demand, stocks, q).orderedQty > 0}
           |-> requirementRow(prods, demand, stocks, p)]

\* The default as it would be if a shortage did not empty it.
defaultEntry_IgnoresNeeded(item) ==
    [carryDeepak |-> MathMin(item.orderedQty, item.deepakStock),
     carryDimple |-> 0]

\* The defaulting effect's entry for a row without one: nothing under a
\* shortage, else Deepak first, then Dimple.
defaultEntry(item) ==
    IF item.needed > 0
    THEN [carryDeepak |-> 0, carryDimple |-> 0]
    ELSE LET takeDeepak == IF item.deepakStock >= item.orderedQty
                           THEN item.orderedQty
                           ELSE item.deepakStock
             remainingNeed == item.orderedQty - takeDeepak
             takeDimple == IF remainingNeed > 0
                           THEN (IF item.dimpleStock >= remainingNeed
                                 THEN remainingNeed
                                 ELSE item.dimpleStock)
                           ELSE 0
         IN [carryDeepak |-> takeDeepak, carryDimple |-> takeDimple]

\* The effect as it would be if it recomputed every row's entry.
gapFill_Overwrites(prevPlan, reqs) ==
    [p \in DOMAIN prevPlan \cup DOMAIN reqs |->
        IF p \in DOMAIN reqs THEN defaultEntry(reqs[p]) ELSE prevPlan[p]]

\* The effect as it would be if it added the default to the entry it found.
gapFill_Accumulates(prevPlan, reqs) ==
    [p \in DOMAIN prevPlan \cup DOMAIN reqs |->
        IF p \notin DOMAIN prevPlan
        THEN defaultEntry(reqs[p])
        ELSE IF p \notin DOMAIN reqs
             THEN prevPlan[p]
             ELSE [carryDeepak |-> prevPlan[p].carryDeepak + defaultEntry(reqs[p]).carryDeepak,
                   carryDimple |-> prevPlan[p].carryDimple + defaultEntry(reqs[p]).carryDimple]]

\* The defaulting effect's updater: nextPlan = {...prevPlan} with an entry
\* added for every row that has none.
gapFill(prevPlan, reqs) ==
    [p \in DOMAIN prevPlan \cup DOMAIN reqs |->
        IF p \in DOMAIN prevPlan THEN prevPlan[p] ELSE defaultEntry(reqs[p])]

\* The Needs tab is opened. The first render has storeStocks = [] and the
\* plan read from storage; the defaulting effect runs on that render's rows
\* and saves; the second render has the depot records loaded and runs the
\* effect once more.
defaultedPlan(plan, prods, ords, stocks) ==
    LET firstRender == requirements(prods, ords, EmptyMap)
        secondRender == requirements(prods, ords, stocks)
    IN gapFill(gapFill(plan, firstRender), secondRender)

RequirementViewMount ==
    /\ logisticsPlan' = defaultedPlan(logisticsPlan, products, orders, storeStocks)
    /\ last' = Did("mount")
    /\ UNCHANGED <<products, orders, storeStocks>>

\* The Needs tab is the one on screen: no other handler ran since it opened.
RequirementViewMounted == last.op \in {"mount", "plan", "reset"}

\* The values an operator types into a carry field: parseInt(val) || 0.
CarryInputs == 0..MaxCarry

\* The carry fields an operator edits.
PlanEdits == {"p1"} \X {"carryDeepak", "carryDimple"} \X CarryInputs

\* updateLogistics(productId, field, val) from the row of productId.
updateLogistics(productId, field, num) ==
    /\ RequirementViewMounted
    /\ productId \in DOMAIN requirements(products, orders, storeStocks)
    /\ productId \in DOMAIN logisticsPlan
    /\ logisticsPlan' =
          Put(logisticsPlan, productId, [logisticsPlan[productId] EXCEPT ![field] = num])
    /\ last' = Did("plan")
    /\ UNCHANGED <<products, orders, storeStocks>>

\* The reset's entry for a row.
freshEntry(item) ==
    IF item.needed > 0
    THEN [carryDeepak |-> 0, carryDimple |-> 0]
    ELSE LET takeDeepak == IF item.deepakStock >= item.orderedQty
                           THEN item.orderedQty
                           ELSE item.deepakStock
             remainingNeed == item.orderedQty - takeDeepak
             takeDimple == IF remainingNeed > 0
                           THEN (IF item.dimpleStock >= remainingNeed
                                 THEN remainingNeed
                                 ELSE item.dimpleStock)
                           ELSE 0
         IN [carryDeepak |-> takeDeepak, carryDimple |-> takeDimple]

\* The reset as it would be if it kept the entries it found.
freshPlan_KeepsEntries(prevPlan, reqs) ==
    [p \in DOMAIN prevPlan \cup DOMAIN reqs |->
        IF p \in DOMAIN prevPlan THEN prevPlan[p] ELSE freshEntry(reqs[p])]

\* handleResetLogistics: freshPlan, built from the rows on screen alone.
freshPlan(prevPlan, reqs) == [p \in DOMAIN reqs |-> freshEntry(reqs[p])]

\* handleResetLogistics, the confirm() dialog accepted.
HandleResetLogistics ==
    /\ RequirementViewMounted
    /\ logisticsPlan' = freshPlan(logisticsPlan, requirements(products, orders, storeStocks))
    /\ last' = Did("reset")
    /\ UNCHANGED <<products, orders, storeStocks>>

\* The order books the Needs tab is opened on.
Placed(id, cart, status) == [id |-> id, items |-> cart, status |-> status]

OrderBooks ==
    { EmptyMap,
      [id \in {1} |-> Placed(1, <<Item("p1", 1, FALSE), Item("p2", 1, FALSE)>>, PENDING)],
      [id \in {1, 2} |->
          IF id = 1
          THEN Placed(1, <<Item("p1", 1, FALSE), Item("p1", 1, FALSE)>>, PENDING)
          ELSE Placed(2, <<Item("p2", 1, FALSE), Item("p1", MaxItemQty, TRUE)>>, PENDING)],
      [id \in {1, 2} |->
          IF id = 1
          THEN Placed(1, <<Item("p1", 1, FALSE)>>, PENDING)
          ELSE Placed(2, <<Item("p1", 1, FALSE)>>, DELIVERED)] }

InitReq ==
    /\ products = [p \in ProductIds |-> [quantity |-> SeedQuantity]]
    /\ orders \in OrderBooks
    /\ storeStocks = EmptyMap
    /\ logisticsPlan = EmptyMap
    /\ NoBooks
    /\ last = Did("init")

NextReq ==
    \/ /\ \E id \in DOMAIN orders, status \in OrderStatus : HandleUpdateStatus(id, status)
       /\ UNCHANGED books
    \/ /\ \E id \in DOMAIN orders : HandleDeleteOrder(id)
       /\ UNCHANGED books
    \/ /\ \E e \in DepotEdits : StoreHouseStockSave(e[1], e[2], e[3])
       /\ UNCHANGED books
    \/ /\ RequirementViewMount
       /\ UNCHANGED books
    \/ /\ \E e \in PlanEdits : updateLogistics(e[1], e[2], e[3])
       /\ UNCHANGED books
    \/ /\ HandleResetLogistics
       /\ UNCHANGED books

SpecReq == InitReq /\ [][NextReq]_vars

\* ---------------------------------------- claims on the requirement view

\* What the PENDING orders of the given ids ask of product p in non-custom
\* lines.
RECURSIVE PendingDemand(_, _)
PendingDemand(ids, p) ==
    IF ids = {}
    THEN 0
    ELSE LET id == CHOOSE n \in ids : TRUE
         IN (IF orders[id].status = PENDING THEN NonCustomQty(orders[id].items, p) ELSE 0)
            + PendingDemand(ids \ {id}, p)

\* The report on screen.
Rows == requirements(products, orders, storeStocks)

\* C11: demand aggregation. For every product the aggregated demand is the
\* sum of the quantities of the non-custom items that name it in PENDING
\* orders; DELIVERED and COMPLETED orders and custom items add nothing, and
\* the report has a row for exactly the products with a demand above 0.
C11_DemandAggregation ==
    \A p \in DOMAIN products :
        LET demand == productDemand(orders)
            total == PendingDemand(DOMAIN orders, p)
        IN /\ (IF p \in DOMAIN demand THEN demand[p] ELSE 0) = total
           /\ (p \in DOMAIN Rows) = (total > 0)
           /\ p \in DOMAIN Rows => Rows[p].orderedQty = total

\* Two PENDING orders with two lines of p1, one line of p2 and a custom line
\* that names p1: the report was computed and asks 2 of p1 and 1 of p2.
C11_Witness ==
    /\ last.op = "mount"
    /\ DOMAIN orders = {1, 2}
    /\ orders[1].status = PENDING /\ orders[2].status = PENDING
    /\ orders[2].items = <<Item("p2", 1, FALSE), Item("p1", MaxItemQty, TRUE)>>
    /\ productDemand(orders) = [p \in {"p1", "p2"} |-> IF p = "p1" THEN 2 ELSE 1]

\* C12: shortage. Every row of the report has needed = max(0, orderedQty -
\* quantity): the part of the demand the stock does not cover, and 0 when
\* the stock covers it.
C12_Shortage ==
    \A p \in DOMAIN Rows :
        /\ Rows[p].orderedQty > 0
        /\ Rows[p].needed >= 0
        /\ Rows[p].orderedQty > products[p].quantity
              => Rows[p].needed = Rows[p].orderedQty - products[p].quantity
        /\ Rows[p].orderedQty <= products[p].quantity => Rows[p].needed = 0

\* The report shows p1 with a shortage of 1 (demand 1, stock 0) and p2
\* covered (demand 1, stock 2).
C12_Witness ==
    /\ last.op = "mount"
    /\ DOMAIN Rows = {"p1", "p2"}
    /\ products["p1"].quantity = 0 /\ Rows["p1"].orderedQty = 1 /\ Rows["p1"].needed = 1
    /\ products["p2"].quantity = SeedQuantity /\ Rows["p2"].orderedQty = 1
    /\ Rows["p2"].needed = 0

\* The depot split of p as the report derives it: depot B is the recorded
\* stock clamped to the quantity, depot A the rest.
DepotB(p) ==
    IF p \in DOMAIN storeStocks
    THEN MathMin(storeStocks[p].dimpleStock, products[p].quantity)
    ELSE 0

DepotA(p) == products[p].quantity - DepotB(p)

\* The greedy allocation of a demand over the two depots.
GreedyCarry(p, orderedQty) ==
    [carryDeepak |-> MathMin(orderedQty, DepotA(p)),
     carryDimple |-> MathMin(orderedQty - MathMin(orderedQty, DepotA(p)), DepotB(p))]

\* C13: default carry plan when the stock covers the demand. A product with
\* needed = 0 and no plan entry gets carryFromA = min(orderedQty, depotA) and
\* carryFromB = min(orderedQty - carryFromA, depotB), which sum to orderedQty.
C13_DefaultPlanCovered ==
    [][RequirementViewMount =>
          \A p \in DOMAIN Rows :
              (Rows[p].needed = 0 /\ p \notin DOMAIN logisticsPlan) =>
                  /\ p \in DOMAIN logisticsPlan'
                  /\ logisticsPlan'[p] = GreedyCarry(p, Rows[p].orderedQty)
                  /\ logisticsPlan'[p].carryDeepak + logisticsPlan'[p].carryDimple
                        = Rows[p].orderedQty
      ]_vars

\* C14: default carry plan under a shortage. A product with pending demand,
\* needed > 0 and no plan entry gets the entry {0, 0}, whatever the depots
\* hold.
C14_DefaultPlanShortage ==
    [][RequirementViewMount =>
          \A p \in DOMAIN Rows :
              (Rows[p].needed > 0 /\ p \notin DOMAIN logisticsPlan) =>
                  /\ p \in DOMAIN logisticsPlan'
                  /\ logisticsPlan'[p] = [carryDeepak |-> 0, carryDimple |-> 0]
      ]_vars

\* The report was computed with one unit of p1 in depot A and a demand of 2:
\* the entry of p1 is {0, 0}.
C14_Witness ==
    /\ last.op = "mount"
    /\ "p1" \in DOMAIN storeStocks
    /\ storeStocks["p1"] = [deepakStock |-> 1, dimpleStock |-> 0]
    /\ products["p1"].quantity = 1
    /\ "p1" \in DOMAIN Rows /\ Rows["p1"].orderedQty = 2 /\ Rows["p1"].needed = 1
    /\ "p1" \in DOMAIN logisticsPlan
    /\ logisticsPlan["p1"] = [carryDeepak |-> 0, carryDimple |-> 0]

\* C15: gap-fill defaulting. A recomputation changes no plan entry that
\* exists, whatever happened to the demand or the stock since it was set;
\* the entries it adds are those of the products of the report that had
\* none.
C15_GapFill ==
    [][RequirementViewMount =>
          /\ \A p \in DOMAIN logisticsPlan :
                p \in DOMAIN logisticsPlan' /\ logisticsPlan'[p] = logisticsPlan[p]
          /\ DOMAIN logisticsPlan' = DOMAIN logisticsPlan \cup DOMAIN Rows
      ]_vars

\* After a recomputation the entry of p1 is not what the defaulting would
\* give for the report as it now stands: it is an entry from before.
C15_Witness ==
    /\ last.op = "mount"
    /\ "p1" \in DOMAIN Rows /\ "p1" \in DOMAIN logisticsPlan
    /\ Rows["p1"].needed = 0
    /\ logisticsPlan["p1"].carryDeepak + logisticsPlan["p1"].carryDimple # Rows["p1"].orderedQty
    /\ "p2" \in DOMAIN logisticsPlan

\* C16: idempotence of plan defaulting. Right after a requirement
\* computation, with orders, products and depot stock as they are, a second
\* computation yields the plan the first one left.
C16_DefaultingIdempotent ==
    last.op = "mount" =>
        defaultedPlan(logisticsPlan, products, orders, storeStocks) = logisticsPlan

\* A computation has just run over a report of two products, with stock in
\* depot B, so that its two renders see different depots.
C16_Witness ==
    /\ last.op = "mount"
    /\ DOMAIN Rows = {"p1", "p2"}
    /\ DOMAIN logisticsPlan = {"p1", "p2"}
    /\ "p1" \in DOMAIN storeStocks /\ storeStocks["p1"].dimpleStock > 0
    /\ requirements(products, orders, EmptyMap) # Rows

\* C17: the reset discards every plan entry and gives every product with
\* pending demand the greedy default: {0, 0} under a shortage, else depot A
\* first and then depot B, whatever the entry was before.
C17_ResetRebuilds ==
    [][HandleResetLogistics =>
          /\ DOMAIN logisticsPlan' = DOMAIN Rows
          /\ \A p \in DOMAIN Rows :
                logisticsPlan'[p] =
                   IF Rows[p].needed > 0
                   THEN [carryDeepak |-> 0, carryDimple |-> 0]
                   ELSE GreedyCarry(p, Rows[p].orderedQty)
      ]_vars

\* The reset has just split a demand of 2 for p1 over depot A and depot B.
C17_Witness ==
    /\ last.op = "reset"
    /\ "p1" \in DOMAIN storeStocks
    /\ storeStocks["p1"] = [deepakStock |-> 1, dimpleStock |-> 1]
    /\ products["p1"].quantity = 2
    /\ "p1" \in DOMAIN Rows /\ Rows["p1"].orderedQty = 2
    /\ logisticsPlan["p1"] = [carryDeepak |-> 1, carryDimple |-> 1]

MaxAmount == 2

PAID == "PAID"
UNPAID == "UNPAID"
PARTIAL == "PARTIAL"
PaymentStatus == {PAID, UNPAID, PARTIAL}

CASH == "CASH"
ONLINE == "ONLINE"
SPLIT == "SPLIT"
NONE == "NONE"

\* App.handleUpdateStatus called with paymentDetails:
\* paymentDetails: paymentDetails || order.paymentDetails.
HandleUpdateStatusPaid(orderId, status, paymentDetails) ==
    /\ orderId \in DOMAIN orders
    /\ LET order == orders[orderId]
           oldStatus == order.status
       IN /\ products' =
                IF status = COMPLETED /\ oldStatus # COMPLETED
                THEN forEachUpdateProductStock(products, order.items, -1)
                ELSE IF oldStatus = COMPLETED /\ status # COMPLETED
                     THEN forEachUpdateProductStock(products, order.items, 1)
                     ELSE products
          /\ orders' = [orders EXCEPT ![orderId] =
                           [order EXCEPT !.status = status, !.paymentDetails = paymentDetails]]
    /\ UNCHANGED <<storeStocks, logisticsPlan>>

\* A handler that alerts and returns: nothing persisted changes.
Rejected == UNCHANGED <<products, orders, storeStocks, logisticsPlan>>

\* The confirmation that ran last: its dialog, its form and the ledgers it
\* found.
Confirmed(op, dialog, orderId, paymentData, isSplitPayment) ==
    [op |-> op, items |-> <<>>,
     pre |-> [dialog |-> dialog, orderId |-> orderId, paymentData |-> paymentData,
              isSplitPayment |-> isSplitPayment, orders |-> orders, products |-> products]]

\* The confirmation as it would be without the promotion of a full PARTIAL
\* payment.
AdvancedSearchConfirmCompletion_NoPromotion(orderId, paymentData, isSplitPayment) ==
    /\ orderId \in DOMAIN orders
    /\ orders[orderId].status = PENDING
    /\ LET completingOrder == orders[orderId]
           cashVal == paymentData.cashAmount
           onlineVal == paymentData.onlineAmount
           amountVal == paymentData.amount
           enteredTotal == IF isSplitPayment THEN cashVal + onlineVal ELSE amountVal
           paid == IF isSplitPayment THEN cashVal + onlineVal ELSE amountVal
           details ==
              [status |-> paymentData.status,
               method |-> IF paymentData.status = UNPAID THEN NONE
                          ELSE IF isSplitPayment THEN SPLIT ELSE paymentData.method,
               amountPaid |-> IF paymentData.status = UNPAID THEN 0 ELSE paid,
               cashAmount |-> IF isSplitPayment THEN cashVal
                              ELSE IF paymentData.method = CASH THEN amountVal ELSE 0,
               onlineAmount |-> IF isSplitPayment THEN onlineVal
                                ELSE IF paymentData.method = ONLINE THEN amountVal ELSE 0,
               totalPaid |-> IF paymentData.status = UNPAID THEN 0 ELSE paid]
       IN IF \/ /\ paymentData.status = PAID
                /\ isSplitPayment
                /\ cashVal + onlineVal # completingOrder.totalAmount
             \/ /\ paymentData.status = PARTIAL
                /\ enteredTotal <= 0
          THEN /\ Rejected
               /\ last' = Confirmed("rejected", "AdvancedSearch", orderId, paymentData,
                                    isSplitPayment)
          ELSE /\ HandleUpdateStatusPaid(orderId, COMPLETED, details)
               /\ last' = Confirmed("completed", "AdvancedSearch", orderId, paymentData,
                                    isSplitPayment)

\* AdvancedSearch.handleConfirmCompletion for the order of the open modal.
AdvancedSearchConfirmCompletion(orderId, paymentData, isSplitPayment) ==
    /\ orderId \in DOMAIN orders
    /\ orders[orderId].status = PENDING
    /\ LET completingOrder == orders[orderId]
           cashVal == paymentData.cashAmount
           onlineVal == paymentData.onlineAmount
           amountVal == paymentData.amount
           enteredTotal == IF isSplitPayment THEN cashVal + onlineVal ELSE amountVal
           \* paymentData.status = PaymentStatus.PAID when the full amount is entered
           status == IF paymentData.status = PARTIAL
                        /\ enteredTotal >= completingOrder.totalAmount
                     THEN PAID
                     ELSE paymentData.status
           paid == IF isSplitPayment THEN cashVal + onlineVal ELSE amountVal
           details ==
              [status |-> status,
               method |-> IF status = UNPAID THEN NONE
                          ELSE IF isSplitPayment THEN SPLIT ELSE paymentData.method,
               amountPaid |-> IF status = UNPAID THEN 0 ELSE paid,
               cashAmount |-> IF isSplitPayment THEN cashVal
                              ELSE IF paymentData.method = CASH THEN amountVal ELSE 0,
               onlineAmount |-> IF isSplitPayment THEN onlineVal
                                ELSE IF paymentData.method = ONLINE THEN amountVal ELSE 0,
               totalPaid |-> IF status = UNPAID THEN 0 ELSE paid]
       IN IF \/ /\ paymentData.status = PAID
                /\ isSplitPayment
                /\ cashVal + onlineVal # completingOrder.totalAmount
             \/ /\ paymentData.status = PARTIAL
                /\ ~(enteredTotal >= completingOrder.totalAmount)
                /\ enteredTotal <= 0
          THEN /\ Rejected
               /\ last' = Confirmed("rejected", "AdvancedSearch", orderId, paymentData,
                                    isSplitPayment)
          ELSE /\ HandleUpdateStatusPaid(orderId, COMPLETED, details)
               /\ last' = Confirmed("completed", "AdvancedSearch", orderId, paymentData,
                                    isSplitPayment)

\* OrderManager.handleConfirmCompletion for the order of the open modal.
OrderManagerConfirmCompletion(orderId, paymentData) ==
    /\ orderId \in DOMAIN orders
    /\ orders[orderId].status = PENDING
    /\ LET details ==
              [status |-> paymentData.status,
               method |-> IF paymentData.status = UNPAID THEN NONE ELSE paymentData.method,
               amountPaid |-> IF paymentData.status = UNPAID THEN 0 ELSE paymentData.amount,
               cashAmount |-> IF paymentData.method = CASH THEN paymentData.amount ELSE 0,
               onlineAmount |-> IF paymentData.method = ONLINE THEN paymentData.amount ELSE 0,
               totalPaid |-> paymentData.amount]
       IN IF paymentData.status # UNPAID /\ paymentData.method = NONE
          THEN /\ Rejected
               /\ last' = Confirmed("rejected", "OrderManager", orderId, paymentData, FALSE)
          ELSE /\ HandleUpdateStatusPaid(orderId, COMPLETED, details)
               /\ last' = Confirmed("completed", "OrderManager", orderId, paymentData, FALSE)

\* The amounts an operator types into the payment fields.
AmountInputs == (0..(MaxAmount + 1)) \cup {-1}

\* The payment forms of the two completion dialogs.
AdvancedSearchForms ==
    [status : PaymentStatus, method : {CASH, ONLINE},
     amount : AmountInputs, cashAmount : AmountInputs, onlineAmount : AmountInputs]

OrderManagerForms == [status : {PAID, UNPAID}, method : {CASH, ONLINE}, amount : AmountInputs]

\* POSCounter.handleSave: the payment details of a new order.
NewPaymentDetails ==
    [method |-> NONE, cashAmount |-> 0, onlineAmount |-> 0, totalPaid |-> 0, status |-> UNPAID]

\* One PENDING order of one unit of p1, with any total the counter can
\* compute (Math.max(0, subtotal - discount)).
InitPay ==
    /\ products = [p \in ProductIds |-> [quantity |-> SeedQuantity]]
    /\ orders \in {[id \in {1} |->
                      [id |-> 1, items |-> <<Item("p1", 1, FALSE)>>, status |-> PENDING,
                       totalAmount |-> total, paymentDetails |-> NewPaymentDetails]] :
                   total \in 0..MaxAmount}
    /\ storeStocks = EmptyMap
    /\ logisticsPlan = EmptyMap
    /\ NoBooks
    /\ last = Did("init")

NextPay ==
    \/ /\ \E id \in DOMAIN orders, paymentData \in AdvancedSearchForms, isSplitPayment \in BOOLEAN :
             AdvancedSearchConfirmCompletion(id, paymentData, isSplitPayment)
       /\ UNCHANGED books
    \/ /\ \E id \in DOMAIN orders, paymentData \in OrderManagerForms :
             OrderManagerConfirmCompletion(id, paymentData)
       /\ UNCHANGED books

SpecPay == InitPay /\ [][NextPay]_vars

\* ------------------------------------------------------ claims on payment

\* A confirmation ran last, in the given dialog, with the given status
\* selected.
LastConfirmation(dialog, status) ==
    /\ last.op \in {"completed", "rejected"}
    /\ last.pre.dialog = dialog
    /\ last.pre.paymentData.status = status

\* What the form of the last confirmation says was paid.
EnteredTotal ==
    IF last.pre.isSplitPayment
    THEN last.pre.paymentData.cashAmount + last.pre.paymentData.onlineAmount
    ELSE last.pre.paymentData.amount

\* The total of the order the last confirmation was about.
OrderTotal == last.pre.orders[last.pre.orderId].totalAmount

\* The last confirmation changed nothing.
NothingChanged ==
    /\ orders = last.pre.orders
    /\ products = last.pre.products
    /\ storeStocks = EmptyMap
    /\ logisticsPlan = EmptyMap

\* The last confirmation completed its order with the given payment status.
CompletedAs(status) ==
    /\ orders[last.pre.orderId].status = COMPLETED
    /\ orders[last.pre.orderId].paymentDetails.status = status

\* C19 as stated: a completion with PARTIAL selected and an entered amount
\* (the single amount, or cash + online when split) >= totalAmount persists
\* the payment status PAID; a PARTIAL completion with an entered amount <= 0
\* is rejected and leaves the order as it was.
C19_PaymentPromotion ==
    LastConfirmation("AdvancedSearch", PARTIAL) =>
        /\ EnteredTotal >= OrderTotal => CompletedAs(PAID)
        /\ EnteredTotal <= 0 => NothingChanged

\* C19 as amended: the promotion comes first. An entered amount >=
\* totalAmount persists PAID, also when both are 0; a PARTIAL completion
\* with an entered amount <= 0 and below totalAmount is rejected and leaves
\* the order as it was; any other PARTIAL completion persists PARTIAL.
C19_PaymentPromotionAmended ==
    LastConfirmation("AdvancedSearch", PARTIAL) =>
        /\ EnteredTotal >= OrderTotal => CompletedAs(PAID)
        /\ (EnteredTotal <= 0 /\ EnteredTotal < OrderTotal) =>
              (last.op = "rejected" /\ NothingChanged)
        /\ (EnteredTotal > 0 /\ EnteredTotal < OrderTotal) => CompletedAs(PARTIAL)

\* An order was completed with PARTIAL selected and more than its total in
\* the split fields, and stands as PAID.
C19_Witness ==
    /\ LastConfirmation("AdvancedSearch", PARTIAL)
    /\ last.op = "completed"
    /\ last.pre.isSplitPayment
    /\ OrderTotal = MaxAmount
    /\ EnteredTotal = MaxAmount + 1
    /\ CompletedAs(PAID)
    /\ orders[1].paymentDetails.method = SPLIT

\* C20: payment mismatch gate. A PAID completion whose amounts do not sum to
\* the order's totalAmount is rejected before anything changes: the order
\* keeps its status and payment details, and no quantity, depot record or
\* plan entry changes.
C20_MismatchRejected ==
    /\ (LastConfirmation("AdvancedSearch", PAID) /\ EnteredTotal # OrderTotal)
          => (last.op = "rejected" /\ NothingChanged)
    /\ (LastConfirmation("OrderManager", PAID) /\ EnteredTotal # OrderTotal)
          => (last.op = "rejected" /\ NothingChanged)

\* ================================================= manual needs (NeedSection)

\* The number of ids crypto.randomUUID() hands out, the largest requirement
\* typed into the form.
MaxNeeds == 3
MaxRequired == 2

NeedIds == 1..MaxNeeds
RequiredInputs == 0..MaxRequired
Notes == {"", "urgent"}

\* Array.prototype.findIndex(n => n.productId === productId): the first
\* index that matches, 0 (JavaScript's -1) when none does.
findIndex(needs, productId) ==
    IF \E i \in DOMAIN needs : needs[i].productId = productId
    THEN CHOOSE i \in DOMAIN needs :
            /\ needs[i].productId = productId
            /\ \A j \in DOMAIN needs : needs[j].productId = productId => i <= j
    ELSE 0

\* addOrUpdateManualNeed as it would be if it always pushed a new record.
addOrUpdateManualNeed_AlwaysAppends(needs, productId, totalRequired, note, uuid) ==
    Append(needs, [id |-> uuid, productId |-> productId,
                   totalRequired |-> totalRequired, note |-> note])

\* v2.addOrUpdateManualNeed on the stored list: the record of the product
\* is replaced in place under its old id, or a record with a new id is
\* pushed.
addOrUpdateManualNeed(needs, productId, totalRequired, note, uuid) ==
    LET existingIndex == findIndex(needs, productId)
        newEntry == [id |-> IF existingIndex > 0 THEN needs[existingIndex].id ELSE uuid,
                     productId |-> productId,
                     totalRequired |-> totalRequired,
                     note |-> note]
    IN IF existingIndex > 0
       THEN [needs EXCEPT ![existingIndex] = newEntry]
       ELSE Append(needs, newEntry)

\* v2.deleteManualNeed: needs.filter(n => n.id !== id).
deleteManualNeed(needs, id) == SelectSeq(needs, LAMBDA n : n.id # id)

\* NeedSection.handleSave: the form holds a product and a requirement.
NeedSectionHandleSave(productId, totalRequired, note) ==
    /\ \E uuid \in NeedIds \ {manualNeeds[i].id : i \in DOMAIN manualNeeds} :
          manualNeeds' = addOrUpdateManualNeed(manualNeeds, productId, totalRequired, note, uuid)
    /\ last' = [op |-> "need", items |-> <<>>,
                pre |-> [manualNeeds |-> manualNeeds, productId |-> productId,
                         totalRequired |-> totalRequired, note |-> note]]
    /\ UNCHANGED <<products, orders, storeStocks, logisticsPlan, unpaidWritings, orderCategoryMap>>

\* NeedSection.handleDelete of a listed need, confirmed.
NeedSectionHandleDelete(id) ==
    /\ manualNeeds' = deleteManualNeed(manualNeeds, id)
    /\ last' = [op |-> "needDeleted", items |-> <<>>,
                pre |-> [manualNeeds |-> manualNeeds, id |-> id]]
    /\ UNCHANGED <<products, orders, storeStocks, logisticsPlan, unpaidWritings, orderCategoryMap>>

NextNeeds ==
    \/ \E productId \in ProductIds, totalRequired \in RequiredInputs, note \in Notes :
          NeedSectionHandleSave(productId, totalRequired, note)
    \/ \E i \in DOMAIN manualNeeds : NeedSectionHandleDelete(manualNeeds[i].id)

SpecNeeds == Init /\ [][NextNeeds]_vars

\* ------------------------------------------------- claims on manual needs

\* The record the ledger holds for a product (there is one).
NeedOf(needs, productId) == needs[findIndex(needs, productId)]

\* C21: manual need upsert. After any sequence of addOrUpdateManualNeed and
\* deleteManualNeed calls the ledger holds at most one record per productId,
\* and adding again for a productId that has a record replaces totalRequired
\* and note and keeps the id of that record.
C21_ManualNeedUpsert ==
    /\ \A i, j \in DOMAIN manualNeeds :
          manualNeeds[i].productId = manualNeeds[j].productId => i = j
    /\ (last.op = "need" /\ findIndex(last.pre.manualNeeds, last.pre.productId) > 0) =>
          /\ Len(manualNeeds) = Len(last.pre.manualNeeds)
          /\ NeedOf(manualNeeds, last.pre.productId) =
                [id |-> NeedOf(last.pre.manualNeeds, last.pre.productId).id,
                 productId |-> last.pre.productId,
                 totalRequired |-> last.pre.totalRequired,
                 note |-> last.pre.note]

\* A product whose need is the second of two records was given another
\* requirement and another note.
C21_Witness ==
    /\ last.op = "need"
    /\ Len(last.pre.manualNeeds) = 2
    /\ findIndex(last.pre.manualNeeds, last.pre.productId) = 2
    /\ NeedOf(last.pre.manualNeeds, last.pre.productId).totalRequired # last.pre.totalRequired
    /\ NeedOf(last.pre.manualNeeds, last.pre.productId).note # last.pre.note
    /\ NeedOf(manualNeeds, last.pre.productId).totalRequired = last.pre.totalRequired

\* ================================== order categories and unpaid writings

\* The number of writings the ledger is let grow to.
MaxWritings == 2

\* relatedOrderId of a writing typed in by hand: the field is absent.
undefined == 0

\* v2.getCategories after the manager added one category: the three
\* defaults and a category the operator named "UNPAID".
getCategories ==
    <<[id |-> "cat_unpaid", name |-> "Unpaid"],
      [id |-> "cat_urgent", name |-> "Urgent"],
      [id |-> "cat_regular", name |-> "Regular"],
      [id |-> "cat_added", name |-> "UNPAID"]>>

CategoryIds == {getCategories[i].id : i \in DOMAIN getCategories}

\* String.prototype.toLowerCase on the names in use.
toLowerCase(name) ==
    CASE name = "Unpaid" -> "unpaid"
      [] name = "UNPAID" -> "unpaid"
      [] name = "Urgent" -> "urgent"
      [] name = "Regular" -> "regular"
      [] OTHER -> name

\* categories.find(c => c.id === categoryId), which finds one here.
findCategory(categoryId) ==
    getCategories[CHOOSE i \in DOMAIN getCategories : getCategories[i].id = categoryId]

\* unpaidWritings.find(u => u.relatedOrderId === orderId) finds a writing.
existing(writings, orderId) ==
    \E i \in DOMAIN writings : writings[i].relatedOrderId = orderId

\* v2.addUnpaidWriting: [...items, item].
addUnpaidWriting(items, item) == Append(items, item)

\* v2.updateUnpaidWriting: items.map(i => i.id === item.id ? item : i).
updateUnpaidWriting(items, item) ==
    [k \in DOMAIN items |-> IF items[k].id = item.id THEN item ELSE items[k]]

\* v2.deleteUnpaidWriting: items.filter(i => i.id !== id).
deleteUnpaidWriting(items, id) == SelectSeq(items, LAMBDA i : i.id # id)

\* The writing assignCategoryToOrder builds for an order.
newWriting(order, uuid) ==
    [id |-> uuid, amount |-> order.totalAmount, relatedOrderId |-> order.id, status |-> UNPAID]

\* The writings after assignCategoryToOrder, as they would be if it did not
\* look for a writing already linked to the order.
assignedWritings_NoExistingCheck(writings, ords, orderId, categoryId, uuid) ==
    IF toLowerCase(findCategory(categoryId).name) = "unpaid" /\ orderId \in DOMAIN ords
    THEN addUnpaidWriting(writings, newWriting(ords[orderId], uuid))
    ELSE writings

\* The writings after v2.assignCategoryToOrder: a writing is added when the
\* category is named unpaid in any letter case, no writing is linked to the
\* order yet, and the order is stored.
assignedWritings(writings, ords, orderId, categoryId, uuid) ==
    IF /\ toLowerCase(findCategory(categoryId).name) = "unpaid"
       /\ ~existing(writings, orderId)
       /\ orderId \in DOMAIN ords
    THEN addUnpaidWriting(writings, newWriting(ords[orderId], uuid))
    ELSE writings

\* The map after v2.assignCategoryToOrder: the order's old entry is
\* filtered out and the new one pushed.
assignedMap(map, orderId, categoryId) ==
    Append(SelectSeq(map, LAMBDA m : m.orderId # orderId),
           [orderId |-> orderId, categoryId |-> categoryId])

\* crypto.randomUUID(): an id no stored writing has (the least one, ids
\* being interchangeable).
randomUUID(writings) ==
    LET used == {writings[i].id : i \in DOMAIN writings}
    IN CHOOSE uuid \in 1..(Len(writings) + 1) :
          /\ uuid \notin used
          /\ \A other \in 1..(Len(writings) + 1) : other \notin used => uuid <= other

\* AdvancedSearch.handleAssignCategory: v2.assignCategoryToOrder for the
\* order whose tag menu is open.
assignCategoryToOrder(orderId, categoryId) ==
    /\ orderCategoryMap' = assignedMap(orderCategoryMap, orderId, categoryId)
    /\ unpaidWritings' = assignedWritings(unpaidWritings, orders, orderId, categoryId,
                                          randomUUID(unpaidWritings))
    /\ Len(unpaidWritings') <= MaxWritings
    /\ last' = [op |-> "category", items |-> <<>>,
                pre |-> [existing |-> existing(unpaidWritings, orderId)]]
    /\ UNCHANGED <<products, orders, storeStocks, logisticsPlan, manualNeeds>>

\* UnpaidWritingsManager.handleSave: a writing typed in by hand, with an
\* amount that is not zero.
UnpaidWritingsHandleSave(amount) ==
    /\ Len(unpaidWritings) < MaxWritings
    /\ unpaidWritings' = addUnpaidWriting(unpaidWritings,
          [id |-> randomUUID(unpaidWritings), amount |-> amount,
           relatedOrderId |-> undefined, status |-> UNPAID])
    /\ last' = Did("writing")
    /\ UNCHANGED <<products, orders, storeStocks, logisticsPlan, manualNeeds, orderCategoryMap>>

\* UnpaidWritingsManager.markAsPaid of a listed writing.
markAsPaid(id) ==
    /\ \E k \in DOMAIN unpaidWritings :
          /\ unpaidWritings[k].id = id
          /\ unpaidWritings' =
                updateUnpaidWriting(unpaidWritings, [unpaidWritings[k] EXCEPT !.status = PAID])
    /\ last' = Did("writingPaid")
    /\ UNCHANGED <<products, orders, storeStocks, logisticsPlan, manualNeeds, orderCategoryMap>>

\* UnpaidWritingsManager.handleDelete of a listed writing, confirmed.
UnpaidWritingsHandleDelete(id) ==
    /\ unpaidWritings' = deleteUnpaidWriting(unpaidWritings, id)
    /\ last' = Did("writingDeleted")
    /\ UNCHANGED <<products, orders, storeStocks, logisticsPlan, manualNeeds, orderCategoryMap>>

\* Two PENDING orders with different totals.
InitBooks ==
    /\ products = [p \in ProductIds |-> [quantity |-> SeedQuantity]]
    /\ orders = [id \in {1, 2} |->
                    [id |-> id, items |-> <<Item("p1", 1, FALSE)>>, status |-> PENDING,
                     totalAmount |-> IF id = 1 THEN 1 ELSE MaxAmount,
                     paymentDetails |-> NewPaymentDetails]]
    /\ storeStocks = EmptyMap
    /\ logisticsPlan = EmptyMap
    /\ NoBooks
    /\ last = Did("init")

NextBooks ==
    \/ \E orderId \in DOMAIN orders, categoryId \in CategoryIds :
          assignCategoryToOrder(orderId, categoryId)
    \/ \E amount \in {MaxAmount} : UnpaidWritingsHandleSave(amount)
    \/ \E k \in DOMAIN unpaidWritings : markAsPaid(unpaidWritings[k].id)
    \/ \E k \in DOMAIN unpaidWritings : UnpaidWritingsHandleDelete(unpaidWritings[k].id)

SpecBooks == InitBooks /\ [][NextBooks]_vars

\* ---------------------------------------- claims on the unpaid writings

\* The writings linked to an order.
LinkedWritings(writings, orderId) ==
    {i \in DOMAIN writings : writings[i].relatedOrderId = orderId}

\* The category is the Unpaid one by the name test of the code.
IsUnpaidCategory(categoryId) == toLowerCase(findCategory(categoryId).name) = "unpaid"

\* C22: assigning the Unpaid category to an existing order creates one
\* writing linked to that order, with amount = order.totalAmount, only if no
\* writing is linked to it already, so no order ever has two linked
\* writings; assigning any other category creates no writing; marking a
\* writing paid or deleting it never changes the order-category map. (The
\* Unpaid category is the one the code takes for it: a category whose name
\* reads "unpaid" in any letter case.)
C22_UnpaidWritingSync ==
    [][/\ \A orderId \in DOMAIN orders, categoryId \in CategoryIds :
             assignCategoryToOrder(orderId, categoryId) =>
                IF IsUnpaidCategory(categoryId) /\ ~existing(unpaidWritings, orderId)
                THEN /\ Len(unpaidWritings') = Len(unpaidWritings) + 1
                     /\ SubSeq(unpaidWritings', 1, Len(unpaidWritings)) = unpaidWritings
                     /\ unpaidWritings'[Len(unpaidWritings')].relatedOrderId = orderId
                     /\ unpaidWritings'[Len(unpaidWritings')].amount = orders[orderId].totalAmount
                ELSE unpaidWritings' = unpaidWritings
       /\ \A orderId \in DOMAIN orders : Cardinality(LinkedWritings(unpaidWritings', orderId)) <= 1
       /\ \A k \in DOMAIN unpaidWritings :
             (markAsPaid(unpaidWritings[k].id) \/ UnpaidWritingsHandleDelete(unpaidWritings[k].id))
                => orderCategoryMap' = orderCategoryMap]_vars

\* The Unpaid category was assigned again to an order whose writing exists
\* and has been marked paid, after a writing was typed in by hand: the
\* order still has its one writing.
C22_Witness ==
    /\ last.op = "category"
    /\ orderCategoryMap[Len(orderCategoryMap)].categoryId = "cat_unpaid"
    /\ last.pre.existing
    /\ Len(unpaidWritings) = 2
    /\ \E i \in DOMAIN unpaidWritings :
          /\ unpaidWritings[i].relatedOrderId = orderCategoryMap[Len(orderCategoryMap)].orderId
          /\ unpaidWritings[i].status = PAID
          /\ unpaidWritings[i].amount = orders[unpaidWritings[i].relatedOrderId].totalAmount
    /\ \E i \in DOMAIN unpaidWritings : unpaidWritings[i].relatedOrderId = undefined
    /\ Len(orderCategoryMap) = 2

\* ============================================ product catalog (ProductManager)

\* The largest price typed into the product form.
MaxPrice == 2

Prices == 1..MaxPrice

\* An order line as POSCounter.handleSave writes it, prices included.
OrderItem(p, q, c, cost, price) ==
    [productId |-> p, quantity |-> q, isCustom |-> c,
     costPriceSnapshot |-> cost, sellingPriceSnapshot |-> price]

\* POSCounter.calculateTotal: Math.max(0, subtotal - discount).
RECURSIVE subtotal(_)
subtotal(items) ==
    IF items = <<>>
    THEN 0
    ELSE Head(items).sellingPriceSnapshot * Head(items).quantity + subtotal(Tail(items))

calculateTotal(items, discount) == MathMax(0, subtotal(items) - discount)

\* POSCounter.addToCart and handleSave: a new order of catalog lines taken
\* at the prices of the catalog, no discount.
Checkout(prods, id, lines) ==
    LET items == [k \in DOMAIN lines |->
                    OrderItem(lines[k][1], lines[k][2], FALSE,
                              prods[lines[k][1]].costPrice, prods[lines[k][1]].sellingPrice)]
    IN [id |-> id, items |-> items, status |-> PENDING,
        totalAmount |-> calculateTotal(items, 0), paymentDetails |-> NewPaymentDetails]

\* The catalog on sale when the orders were taken.
PricedProducts ==
    [p \in ProductIds |-> [quantity |-> SeedQuantity, costPrice |-> 1, sellingPrice |-> MaxPrice]]

\* What the product form hands over when an edit is submitted: the prices
\* typed, the other fields as they were.
ProductForms(id) ==
    {[quantity |-> products[id].quantity, costPrice |-> c, sellingPrice |-> s] :
        c \in Prices, s \in Prices}

\* handleUpdateProduct as it would be if it carried the new prices into the
\* lines of the orders.
HandleUpdateProduct_Reprices(id, product) ==
    /\ id \in DOMAIN products
    /\ products' = [p \in DOMAIN products |-> IF p = id THEN product ELSE products[p]]
    /\ orders' = [o \in DOMAIN orders |->
                    [orders[o] EXCEPT !.items =
                        [k \in DOMAIN @ |->
                            IF @[k].productId = id
                            THEN [@[k] EXCEPT !.costPriceSnapshot = product.costPrice,
                                              !.sellingPriceSnapshot = product.sellingPrice]
                            ELSE @[k]]]]
    /\ last' = [op |-> "productUpdated", items |-> <<>>, pre |-> [orders |-> orders, id |-> id]]
    /\ UNCHANGED <<storeStocks, logisticsPlan>>

\* App.handleUpdateProduct: products.map(p => p.id === product.id ? product : p).
HandleUpdateProduct(id, product) ==
    /\ id \in DOMAIN products
    /\ products' = [p \in DOMAIN products |-> IF p = id THEN product ELSE products[p]]
    /\ last' = [op |-> "productUpdated", items |-> <<>>, pre |-> [orders |-> orders, id |-> id]]
    /\ UNCHANGED <<orders, storeStocks, logisticsPlan>>

\* App.handleDeleteProduct, the confirm() dialog accepted:
\* products.filter(p => p.id !== id).
HandleDeleteProduct(id) ==
    /\ id \in DOMAIN products
    /\ products' = Drop(products, id)
    /\ last' = [op |-> "productDeleted", items |-> <<>>, pre |-> [orders |-> orders, id |-> id]]
    /\ UNCHANGED <<orders, storeStocks, logisticsPlan>>

\* Two orders taken at the first prices: one of p1, one of p1 and p2.
InitCat ==
    /\ products = PricedProducts
    /\ orders = [id \in {1, 2} |->
                    IF id = 1
                    THEN Checkout(PricedProducts, 1, <<<<"p1", MaxItemQty>>>>)
                    ELSE Checkout(PricedProducts, 2, <<<<"p1", 1>>, <<"p2", 1>>>>)]
    /\ storeStocks = EmptyMap
    /\ logisticsPlan = EmptyMap
    /\ NoBooks
    /\ last = Did("init")

NextCat ==
    \/ /\ \E id \in DOMAIN products : \E product \in ProductForms(id) : HandleUpdateProduct(id, product)
       /\ UNCHANGED books
    \/ /\ \E id \in DOMAIN products : HandleDeleteProduct(id)
       /\ UNCHANGED books
    \/ /\ \E id \in DOMAIN orders, status \in OrderStatus : HandleUpdateStatus(id, status)
       /\ UNCHANGED books
    \/ /\ \E id \in DOMAIN orders : HandleDeleteOrder(id)
       /\ UNCHANGED books

SpecCat == InitCat /\ [][NextCat]_vars

\* --------------------------------------------------- claims on the catalog

\* The prices the lines of the orders were sold at and the totals of the
\* orders.
Snapshots(ords) ==
    [o \in DOMAIN ords |->
        [totalAmount |-> ords[o].totalAmount,
         items |-> [k \in DOMAIN ords[o].items |->
                      <<ords[o].items[k].costPriceSnapshot,
                        ords[o].items[k].sellingPriceSnapshot>>]]]

\* C23: snapshot isolation. Editing or deleting a product leaves the
\* costPriceSnapshot and sellingPriceSnapshot of every item of every
\* existing order, and the totalAmount of every order, unchanged.
C23_SnapshotIsolation ==
    last.op \in {"productUpdated", "productDeleted"} =>
        Snapshots(orders) = Snapshots(last.pre.orders)

\* p1 was given prices that differ from the ones an order of p1, completed
\* since, was sold at.
C23_Witness ==
    /\ last.op = "productUpdated"
    /\ last.pre.id = "p1"
    /\ 1 \in DOMAIN orders
    /\ orders[1].status = COMPLETED
    /\ orders[1].items[1].productId = "p1"
    /\ orders[1].items[1].sellingPriceSnapshot # products["p1"].sellingPrice
    /\ orders[1].items[1].costPriceSnapshot # products["p1"].costPrice
    /\ orders[1].totalAmount = MaxPrice * MaxItemQty
    /\ "p2" \notin DOMAIN products

\* =================================================== several lines at once

\* Two PENDING orders of several catalog lines, one with two lines of p1;
\* the status handler of the order list next to the v2 stock routines,
\* called on the ledgers the handler leaves.
InitLines ==
    /\ products = [p \in ProductIds |-> [quantity |-> SeedQuantity]]
    /\ orders = [id \in {1, 2} |->
                    IF id = 1
                    THEN Placed(1, <<Item("p1", 1, FALSE), Item("p1", 1, FALSE)>>, PENDING)
                    ELSE Placed(2, <<Item("p1", 1, FALSE), Item("p2", 1, FALSE)>>, PENDING)]
    /\ storeStocks = EmptyMap
    /\ logisticsPlan = EmptyMap
    /\ NoBooks
    /\ last = Did("init")

NextLines ==
    \/ /\ \E id \in DOMAIN orders, status \in OrderStatus : HandleUpdateStatus(id, status)
       /\ UNCHANGED books
    \/ /\ \E cart \in Carts : CallCompletion(cart)
       /\ UNCHANGED books
    \/ /\ \E cart \in Carts : CallReversion(cart)
       /\ UNCHANGED books

SpecLines == InitLines /\ [][NextLines]_vars

\* C24: no lost update within one transition. Completing or reverting an
\* order with several non-custom items, two lines of one product among
\* them, applies the change of every item: the quantity of each product
\* goes down (completion) or up (reversion) by the sum of its lines. This
\* is so in handleUpdateStatus, in processOrderReversionStock, and in
\* processOrderCompletionStock wherever the stock covers the sum (below
\* that the routine stops at zero).
C24_NoLostUpdate ==
    [][/\ \A id \in DOMAIN orders, status \in OrderStatus :
             (last'.op = "status" /\ HandleUpdateStatus(id, status)) =>
                \A p \in DOMAIN products :
                   products'[p].quantity =
                      products[p].quantity
                         + (IF status = COMPLETED /\ orders[id].status # COMPLETED
                            THEN 0 - NonCustomQty(orders[id].items, p)
                            ELSE IF orders[id].status = COMPLETED /\ status # COMPLETED
                                 THEN NonCustomQty(orders[id].items, p)
                                 ELSE 0)
       /\ \A cart \in Carts :
             /\ (last'.op = "complete" /\ CallCompletion(cart)) =>
                   \A p \in DOMAIN products :
                      products[p].quantity >= NonCustomQty(cart, p) =>
                         products'[p].quantity = products[p].quantity - NonCustomQty(cart, p)
             /\ (last'.op \in {"revert", "roundtrip"} /\ CallReversion(cart)) =>
                   \A p \in DOMAIN products :
                      products'[p].quantity = products[p].quantity + NonCustomQty(cart, p)
      ]_vars

\* An order of two lines of one unit of p1 each was completed and set back
\* to PENDING, and completed again: p1 is down by two.
C24_Witness ==
    /\ last.op = "status"
    /\ \E id \in DOMAIN orders :
          /\ orders[id].status = COMPLETED
          /\ orders[id].items = <<Item("p1", 1, FALSE), Item("p1", 1, FALSE)>>
    /\ products["p1"].quantity = SeedQuantity - 2
    /\ products["p2"].quantity = SeedQuantity
    /\ "p1" \in DOMAIN storeStocks

\* ================================================== typed carry amounts

\* What an operator leaves in a carry input: nothing, letters, a negative
\* number, zero, a positive number, a number with decimals.
TypedValues == {"", "abc", "-1", "0", "1", "1.5"}

\* parseInt(val): <<n>> for the integer n read off the front of the text,
\* <<>> for NaN.
parseInt(val) ==
    CASE val = "-1" -> <<-1>>
      [] val = "0" -> <<0>>
      [] val = "1" -> <<1>>
      [] val = "1.5" -> <<1>>
      [] OTHER -> <<>>

\* parseInt(val) || 0: NaN and 0 are falsy, every other number is kept.
parseIntOrZero(val) ==
    IF parseInt(val) = <<>> \/ parseInt(val) = <<0>> THEN 0 ELSE parseInt(val)[1]

\* onChange of a carry input of a row: updateLogistics(item.id, field,
\* e.target.value).
CarryInputChange(productId, field, val) ==
    updateLogistics(productId, field, parseIntOrZero(val))

NextTyped ==
    \/ /\ RequirementViewMount
       /\ UNCHANGED books
    \/ /\ \E productId \in ProductIds, field \in {"carryDeepak", "carryDimple"}, val \in TypedValues :
             CarryInputChange(productId, field, val)
       /\ UNCHANGED books
    \/ /\ HandleResetLogistics
       /\ UNCHANGED books

SpecTyped == InitReq /\ [][NextTyped]_vars

\* C25: invalid numeric input is normalized to zero. A negative or
\* non-numeric value handed to updateLogistics is stored as 0, so every
\* persisted plan entry has carryDeepak >= 0 and carryDimple >= 0.
C25_InvalidInputZeroed ==
    \A p \in DOMAIN logisticsPlan :
        /\ logisticsPlan[p].carryDeepak >= 0
        /\ logisticsPlan[p].carryDimple >= 0

\* ================================================ orders of deleted products

\* A PENDING order of p1 and p2 over the seed catalog.
InitGone ==
    /\ products = [p \in ProductIds |-> [quantity |-> SeedQuantity]]
    /\ orders = [id \in {1} |->
                    Placed(1, <<Item("p1", 1, FALSE), Item("p2", MaxItemQty, FALSE)>>, PENDING)]
    /\ storeStocks = EmptyMap
    /\ logisticsPlan = EmptyMap
    /\ NoBooks
    /\ last = Did("init")

\* Products are deleted under the orders; the orders change status, the
\* Needs tab is opened, and the v2 stock routines are handed the orders.
NextGone ==
    \/ /\ \E id \in DOMAIN products : HandleDeleteProduct(id)
       /\ UNCHANGED books
    \/ /\ \E id \in DOMAIN orders, status \in OrderStatus : HandleUpdateStatus(id, status)
       /\ UNCHANGED books
    \/ /\ RequirementViewMount
       /\ UNCHANGED books
    \/ /\ \E id \in DOMAIN orders : CallCompletion(orders[id].items)
       /\ UNCHANGED books
    \/ /\ \E id \in DOMAIN orders : CallReversion(orders[id].items)
       /\ UNCHANGED books

SpecGone == InitGone /\ [][NextGone]_vars

\* The lines of an item list without the catalog lines of products that
\* are not in the catalog.
PresentLines(items) ==
    SelectSeq(items, LAMBDA item : item.isCustom \/ item.productId \in DOMAIN products)

\* The orders as they would be without those lines.
PresentOrders == [id \in DOMAIN orders |-> [orders[id] EXCEPT !.items = PresentLines(@)]]

\* Two ledgers agree on the catalog and on the depot record and plan entry
\* of every product of the catalog.
SameForCatalog(L, M) ==
    /\ L.products = M.products
    /\ \A p \in DOMAIN L.products :
          /\ (p \in DOMAIN L.stocks) = (p \in DOMAIN M.stocks)
          /\ p \in DOMAIN L.stocks => L.stocks[p] = M.stocks[p]
          /\ (p \in DOMAIN L.plan) = (p \in DOMAIN M.plan)
          /\ p \in DOMAIN L.plan => L.plan[p] = M.plan[p]

\* C26: referential inconsistency tolerated. When a PENDING or COMPLETED
\* order has a non-custom item whose productId is not in the catalog, the
\* requirement computation, the completion and the reversion all go
\* through, and what they report and store for the products of the catalog
\* is what it would be without that item: the report (which has no row for
\* the missing product) and the defaults saved from it, the quantities
\* handleUpdateStatus writes, and the quantities, depot records and plan
\* entries the v2 stock routines write.
C26_MissingProductTolerated ==
    [][/\ requirements(products', orders', storeStocks') =
             requirements(products', PresentOrders', storeStocks')
       /\ (last'.op = "mount" /\ RequirementViewMount) =>
             logisticsPlan' = defaultedPlan(logisticsPlan, products, PresentOrders, storeStocks)
       /\ \A id \in DOMAIN orders :
             /\ \A status \in OrderStatus :
                   (last'.op = "status" /\ HandleUpdateStatus(id, status)) =>
                      products' =
                         IF status = COMPLETED /\ orders[id].status # COMPLETED
                         THEN forEachUpdateProductStock(products, PresentLines(orders[id].items), -1)
                         ELSE IF orders[id].status = COMPLETED /\ status # COMPLETED
                              THEN forEachUpdateProductStock(products, PresentLines(orders[id].items), 1)
                              ELSE products
             /\ (last'.op = "complete" /\ CallCompletion(orders[id].items)) =>
                   SameForCatalog(Ledger', CompletionItems(Ledger, PresentLines(orders[id].items)))
             /\ (last'.op \in {"revert", "roundtrip"} /\ CallReversion(orders[id].items)) =>
                   SameForCatalog(Ledger', ReversionItems(Ledger, PresentLines(orders[id].items)))
      ]_vars

\* p2 was deleted while the order of p1 and p2 was PENDING; the order was
\* completed after that, and p1 alone went down.
C26_Witness ==
    /\ last.op = "status"
    /\ DOMAIN products = {"p1"}
    /\ orders[1].status = COMPLETED
    /\ products["p1"].quantity = SeedQuantity - 1
    /\ "p2" \in DOMAIN storeStocks
    /\ "p1" \in DOMAIN logisticsPlan

\* --------------------------------------- claims on the reported depot split

\* The depot records with another depot A figure in every record.
WithDepotA(stocks, d) == [p \in DOMAIN stocks |-> [stocks[p] EXCEPT !.deepakStock = d]]

\* C27: report-level depot clamp. Every row of the report shows depot B =
\* min(stored depot B, product.quantity), 0 when the product has no depot
\* record, and depot A = quantity - that depot B, so the two add up to the
\* current stock; the stored depot A figure is not read: the report is the
\* same whatever it is.
C27_ReportDepotClamp ==
    /\ \A p \in DOMAIN Rows :
          /\ Rows[p].dimpleStock =
                (IF p \in DOMAIN storeStocks
                 THEN MathMin(storeStocks[p].dimpleStock, products[p].quantity)
                 ELSE 0)
          /\ Rows[p].deepakStock = products[p].quantity - Rows[p].dimpleStock
          /\ Rows[p].deepakStock + Rows[p].dimpleStock = Rows[p].currentStock
          /\ Rows[p].currentStock = products[p].quantity
    /\ \A d \in LedgerInputs : requirements(products, orders, WithDepotA(storeStocks, d)) = Rows

\* The report is on screen with a row of a product whose recorded depot B
\* is above its quantity.
C27_Witness ==
    /\ last.op = "mount"
    /\ \E p \in DOMAIN Rows :
          /\ p \in DOMAIN storeStocks
          /\ storeStocks[p].dimpleStock > products[p].quantity
          /\ Rows[p].dimpleStock = products[p].quantity
          /\ Rows[p].deepakStock = 0

\* ====================================================== the order handlers

\* An order of one p1 placed earlier, the seed catalog untouched.
InitOrders ==
    /\ products = [p \in ProductIds |-> [quantity |-> SeedQuantity]]
    /\ orders = [id \in {0} |-> Placed(0, <<Item("p1", 1, FALSE)>>, PENDING)]
    /\ storeStocks = EmptyMap
    /\ logisticsPlan = EmptyMap
    /\ NoBooks
    /\ last = Did("init")

\* Orders are created, edited, moved between statuses and deleted; no
\* product is added, edited or deleted and no depot split is saved.
NextOrders ==
    \/ /\ \E cart \in Carts : HandleSaveOrderNew(cart)
       /\ UNCHANGED books
    \/ /\ \E id \in DOMAIN orders, cart \in Carts : HandleSaveOrderEdit(id, cart)
       /\ UNCHANGED books
    \/ /\ \E id \in DOMAIN orders, status \in OrderStatus : HandleUpdateStatus(id, status)
       /\ UNCHANGED books
    \/ /\ \E id \in DOMAIN orders : HandleDeleteOrder(id)
       /\ UNCHANGED books

SpecOrders == InitOrders /\ [][NextOrders]_vars

\* What the COMPLETED orders of the given ids hold of product p in
\* non-custom lines.
RECURSIVE CompletedQty(_, _)
CompletedQty(ids, p) ==
    IF ids = {}
    THEN 0
    ELSE LET id == CHOOSE n \in ids : TRUE
         IN (IF orders[id].status = COMPLETED THEN NonCustomQty(orders[id].items, p) ELSE 0)
            + CompletedQty(ids \ {id}, p)

\* C28: conservation. With the catalog fixed and no quantity or depot split
\* edited by hand, in every state reached by creating, editing, changing the
\* status of and deleting orders, the quantity of each product is its
\* initial quantity minus the sum of the non-custom item quantities of the
\* orders that are COMPLETED now.
C28_Conservation ==
    /\ DOMAIN products = ProductIds
    /\ \A p \in ProductIds :
          products[p].quantity = SeedQuantity - CompletedQty(DOMAIN orders, p)

\* Two orders are COMPLETED, the one placed last edited after its
\* completion to one p2 and a custom line; p1 and p2 are each down by what
\* the catalog lines of the two orders hold.
C28_Witness ==
    /\ last.op = "edit"
    /\ Cardinality(DOMAIN orders) = 2
    /\ \A id \in DOMAIN orders : orders[id].status = COMPLETED
    /\ orders[0].items = <<Item("p1", 1, FALSE)>>
    /\ \E id \in DOMAIN orders :
          orders[id].items = <<Item("p2", 1, FALSE), Item("p1", MaxItemQty, TRUE)>>
    /\ products["p1"].quantity = SeedQuantity - 1
    /\ products["p2"].quantity = SeedQuantity - 1

\* C29: reversion never touches the plan. processOrderReversionStock leaves
\* every plan entry as it is, so what a completion consumed of the carry
\* amounts stays consumed after the order is reverted, and the consumed
\* entry, still there, is not given a default again by the next requirement
\* computation.
C29_ReversionKeepsPlan ==
    [][/\ \A id \in DOMAIN orders :
             (last'.op \in {"revert", "roundtrip"} /\ CallReversion(orders[id].items)) =>
                logisticsPlan' = logisticsPlan
       /\ last'.op = "roundtrip" =>
             logisticsPlan' = CompletionItems(last'.pre, last'.items).plan
       /\ (last'.op = "mount" /\ RequirementViewMount) =>
             \A p \in DOMAIN logisticsPlan :
                p \in DOMAIN logisticsPlan' /\ logisticsPlan'[p] = logisticsPlan[p]
      ]_vars

\* The PENDING order went through completion and reversion after the Needs
\* tab had planned one p1 from depot A for it: the entry of p1 is down to
\* nothing while the report still asks one p1.
C29_Witness ==
    /\ last.op = "roundtrip"
    /\ "p1" \in DOMAIN last.pre.plan
    /\ last.pre.plan["p1"] = [carryDeepak |-> 1, carryDimple |-> 0]
    /\ logisticsPlan["p1"] = [carryDeepak |-> 0, carryDimple |-> 0]
    /\ orders[1].status = PENDING
    /\ "p1" \in DOMAIN Rows
    /\ Rows["p1"].orderedQty = 1
    /\ Rows["p1"].needed = 0

\* The products the catalog lines of an item list name.
Touched(items) == {items[k].productId : k \in {j \in DOMAIN items : ~items[j].isCustom}}

\* The quantity the catalog holds of p, 0 for a product it does not hold.
QuantityOrZero(p) == IF p \in DOMAIN products THEN products[p].quantity ELSE 0

\* The ledgers with a depot record for p written out: the quantity in
\* depot A, nothing in depot B.
WithRecord(p) ==
    [Ledger EXCEPT !.stocks =
        Put(@, p, [deepakStock |-> QuantityOrZero(p), dimpleStock |-> 0])]

\* C30: lazy depot record creation. When a completion or a reversion
\* touches a product that has no depot record, a record is created with
\* depot A = the product's quantity at that moment (0 for a product that is
\* not in the catalog) and depot B = 0, so that the two add up to the
\* quantity, and the deduction or restoration is applied to that record:
\* the call leaves the record it would leave had that record been on file,
\* and a reversion leaves depot A = that quantity plus the lines given
\* back, depot B = 0.
C30_LazyDepotRecord ==
    [][\A id \in DOMAIN orders :
          LET items == orders[id].items IN
          /\ (last'.op = "complete" /\ CallCompletion(items)) =>
                \A p \in Touched(items) \ DOMAIN storeStocks :
                   /\ p \in DOMAIN storeStocks'
                   /\ storeStocks'[p] = CompletionItems(WithRecord(p), items).stocks[p]
                   /\ storeStocks'[p].dimpleStock = 0
          /\ (last'.op \in {"revert", "roundtrip"} /\ CallReversion(items)) =>
                \A p \in Touched(items) \ DOMAIN storeStocks :
                   /\ p \in DOMAIN storeStocks'
                   /\ storeStocks'[p] =
                         [deepakStock |-> QuantityOrZero(p) + NonCustomQty(items, p),
                          dimpleStock |-> 0]
      ]_vars

\* The order was handed to the reversion with no depot record on file and
\* p2 deleted: p1 got a record of its quantity plus one, p2 a record of the
\* units given back alone.
C30_Witness ==
    /\ last.op = "revert"
    /\ DOMAIN products = {"p1"}
    /\ DOMAIN storeStocks = {"p1", "p2"}
    /\ storeStocks["p1"] = [deepakStock |-> SeedQuantity + 1, dimpleStock |-> 0]
    /\ storeStocks["p2"] = [deepakStock |-> MaxItemQty, dimpleStock |-> 0]
    /\ products["p1"].quantity = SeedQuantity + 1

====
